---- MODULE Spec2Model ----
(***************************************************************************)
(* Model of enn/networks/utils.py: the adapters that convert between the   *)
(* representations of an epistemic neural network (ENN).                   *)
(*                                                                         *)
(* Networks are records of functions in the source.  Here a network is a   *)
(* closure value: a record holding a tag (which adapter built it) and the  *)
(* values the adapter's inner functions close over.  ApplyFn, InitFn and   *)
(* IndexerFn (and the WithState variants) run such a closure.              *)
(*                                                                         *)
(* Arrays are [shape, data] records (row-major data).  Array elements are  *)
(* binary floating-point numbers of Precision significant bits, written    *)
(* as integer multiples of the smallest positive number 2^-FracBits;       *)
(* every arithmetic operation rounds to nearest, ties to even.             *)
(***************************************************************************)
EXTENDS Integers, Sequences, FiniteSets, TLC

VARIABLES enn, last, unused_state

vars == <<enn, last, unused_state>>

(***************************************************************************)
(* Bounds of the model.                                                    *)
(***************************************************************************)
Precision == 2
FracBits == 1
MaxNum == 4
MaxIndex == 1
MaxCount == 2

(***************************************************************************)
(* Floating-point arithmetic of array elements.                            *)
(***************************************************************************)
RECURSIVE Pow2(_)
Pow2(n) == IF n = 0 THEN 1 ELSE 2 * Pow2(n - 1)

One == Pow2(FracBits)

\* a / b (a >= 0, b > 0) rounded to the nearest integer, ties to even
RoundHalfEven(a, b) ==
  LET q == a \div b
      r == a % b
  IN  IF 2 * r < b THEN q
      ELSE IF 2 * r > b THEN q + 1
      ELSE IF q % 2 = 0 THEN q ELSE q + 1

\* the spacing of the floats around a / b: the least g = 2^j, j >= 0, with
\* a / b < g * 2^Precision (called with hi = b * g * 2^Precision)
RECURSIVE Spacing(_, _, _)
Spacing(a, hi, g) == IF a < hi THEN g ELSE Spacing(a, 2 * hi, 2 * g)

\* the float nearest to the rational a / b (b > 0)
RoundQ(a, b) ==
  LET m == IF a < 0 THEN 0 - a ELSE a
      g == Spacing(m, b * Pow2(Precision), 1)
      r == RoundHalfEven(m, b * g) * g
  IN  IF a < 0 THEN 0 - r ELSE r

Representable(n) == RoundQ(n, 1) = n

FAdd(x, y) == RoundQ(x + y, 1)
FSub(x, y) == RoundQ(x - y, 1)
FMul(x, y) == RoundQ(x * y, One)
\* y # 0 wherever the model divides
FDiv(x, y) == IF y < 0 THEN RoundQ(0 - (x * One), 0 - y) ELSE RoundQ(x * One, y)

\* the float nearest to the square root of v >= 0
FSqrt(v) ==
  LET t  == v * One
      lo == CHOOSE n \in 0..(t + 1) :
              /\ Representable(n) /\ n * n <= t
              /\ \A k \in (n + 1)..(t + 1) : Representable(k) => k * k > t
      hi == CHOOSE n \in (lo + 1)..(2 * lo + 2) :
              /\ Representable(n)
              /\ \A k \in (lo + 1)..(n - 1) : ~Representable(k)
  IN  IF 4 * t <= (lo + hi) * (lo + hi) THEN lo ELSE hi

(***************************************************************************)
(* Arrays: [shape, data], data in row-major order.                         *)
(***************************************************************************)
Array(shape, data) == [shape |-> shape, data |-> data]

\* <<Op(1), ..., Op(n)>>
RECURSIVE Tabulate(_, _)
Tabulate(Op(_), n) == IF n = 0 THEN <<>> ELSE Append(Tabulate(Op, n - 1), Op(n))

Ndim(a) == Len(a.shape)

zeros_like(a) == Array(a.shape, Tabulate(LAMBDA i : 0, Len(a.data)))

\* array (op) Python scalar, elementwise
MulScalar(a, s) == Array(a.shape, Tabulate(LAMBDA i : FMul(a.data[i], s), Len(a.data)))
AddScalar(a, s) == Array(a.shape, Tabulate(LAMBDA i : FAdd(a.data[i], s), Len(a.data)))

\* element i of a, a broadcast along its leading axes to n elements
Bcast(a, i) == a.data[((i - 1) % Len(a.data)) + 1]

BcastShape(a, b) == IF Len(a.shape) >= Len(b.shape) THEN a.shape ELSE b.shape
BcastLen(a, b) == IF Len(a.data) >= Len(b.data) THEN Len(a.data) ELSE Len(b.data)

Sub(a, b) ==
  Array(BcastShape(a, b), Tabulate(LAMBDA i : FSub(Bcast(a, i), Bcast(b, i)), BcastLen(a, b)))
Div(a, b) ==
  Array(BcastShape(a, b), Tabulate(LAMBDA i : FDiv(Bcast(a, i), Bcast(b, i)), BcastLen(a, b)))
Square(a) == Array(a.shape, Tabulate(LAMBDA i : FMul(a.data[i], a.data[i]), Len(a.data)))
Sqrt(a) == Array(a.shape, Tabulate(LAMBDA i : FSqrt(a.data[i]), Len(a.data)))

\* the sum over axis 0 of column j, rows 1..i, accumulated in order
RECURSIVE SumAxis0(_, _, _, _)
SumAxis0(a, inner, j, i) ==
  IF i = 0 THEN 0
  ELSE FAdd(SumAxis0(a, inner, j, i - 1), a.data[(i - 1) * inner + j])

\* jnp.mean(a, axis=0) of an array of rank >= 1 with a non-empty axis 0
Mean0(a) ==
  LET n     == a.shape[1]
      inner == Len(a.data) \div n
  IN  Array(Tail(a.shape), Tabulate(LAMBDA j : RoundQ(SumAxis0(a, inner, j, n), n), inner))

\* jnp.std(a, axis=0): sqrt(mean(square(a - mean(a))))
Std0(a) == Sqrt(Mean0(Square(Sub(a, Mean0(a)))))

\* the literal 1e-9, below the resolution of the format: its smallest
\* positive number
Eps == 1

(***************************************************************************)
(* base.Output: a raw array or an OutputWithPrior(train, prior, extra).    *)
(***************************************************************************)
Raw(a) == [type |-> "Array", value |-> a]
OutputWithPrior(train, prior, extra) ==
  [type |-> "OutputWithPrior", train |-> train, prior |-> prior, extra |-> extra]

IsOutputWithPrior(net_out) == net_out.type = "OutputWithPrior"

\* the preds property of base.OutputWithPrior
Preds(net_out) == Raw(net_out.train)

parse_net_output_prior(net_out) ==
  IF IsOutputWithPrior(net_out) THEN Raw(net_out.prior) ELSE net_out

parse_net_output(net_out) ==
  IF IsOutputWithPrior(net_out) THEN Preds(net_out) ELSE net_out

parse_to_output_with_prior_rewrap(net_out) ==
  IF IsOutputWithPrior(net_out)
  THEN OutputWithPrior(net_out.train, zeros_like(net_out.train), {})
  ELSE OutputWithPrior(net_out.value, net_out.value, {})

parse_to_output_with_prior(net_out) ==
  IF IsOutputWithPrior(net_out) THEN net_out
  ELSE OutputWithPrior(net_out.value, zeros_like(net_out.value), {})

(***************************************************************************)
(* hk.Params and hk.State.  A state is a mapping, written as a set of      *)
(* <<name, value>> pairs; the empty mapping {} is the empty set.           *)
(***************************************************************************)
EmptyState == {}

CountOf(state) == IF state = {} THEN 0 ELSE (CHOOSE p \in state : TRUE)[2]

StateOf(n) == {<<"count", n>>}

\* Optional[hk.State]: <<>> is None, <<s>> is the state s
None == <<>>

(***************************************************************************)
(* The networks handed to the adapters (network_base.EpistemicNetwork and  *)
(* EpistemicNetworkWithState values built elsewhere).  "lin" returns a raw *)
(* array, "prior" an OutputWithPrior; both depend on params, inputs and    *)
(* index.  "counter" and "prior_ws" also read the state and return it      *)
(* advanced.                                                               *)
(***************************************************************************)
Affine(params, x, c) == AddScalar(MulScalar(x, params.w), c)

BaseApply(id, params, x, z) ==
  IF id = "lin" THEN Raw(Affine(params, x, z))
  ELSE OutputWithPrior(Affine(params, x, 0), AddScalar(x, z), {<<"inputs", x>>})

BaseApplyWithState(id, params, state, x, z) ==
  IF id = "counter"
  THEN <<Raw(Affine(params, x, z + CountOf(state))), StateOf(CountOf(state) + 1)>>
  ELSE <<OutputWithPrior(Affine(params, x, CountOf(state)), AddScalar(x, z),
                         {<<"inputs", x>>}),
         StateOf(CountOf(state) + 1)>>

BaseInit(id, key, x, z) == [w |-> One + ((key + z) % 2)]

BaseInitWithState(id, key, x, z) == <<[w |-> One + ((key + z) % 2)], StateOf(1)>>

BaseIndexer(id, key) == (key + 1) % (MaxIndex + 1)

\* hk.Transformed: apply(params, x) and init(key, x)
TransformedApply(id, params, x) ==
  IF id = "f" THEN Raw(MulScalar(x, params.w))
  ELSE OutputWithPrior(MulScalar(x, params.w), x, {})

TransformedInit(id, key, x) == [w |-> One + (key % 2)]

(***************************************************************************)
(* Function values.  A function defined inside an adapter is a closure     *)
(* [fn, captured variables]; a network is a record of three of them.       *)
(***************************************************************************)
EpistemicNetwork(apply, init, indexer) ==
  [type |-> "EpistemicNetwork", apply |-> apply, init |-> init, indexer |-> indexer]

EpistemicNetworkWithState(apply, init, indexer) ==
  [type |-> "EpistemicNetworkWithState", apply |-> apply, init |-> init,
   indexer |-> indexer]

BaseEnn(id) ==
  EpistemicNetwork([fn |-> "base_apply", id |-> id], [fn |-> "base_init", id |-> id],
                   [fn |-> "base_indexer", id |-> id])

BaseEnnWithState(id) ==
  EpistemicNetworkWithState([fn |-> "base_apply_with_state", id |-> id],
                            [fn |-> "base_init_with_state", id |-> id],
                            [fn |-> "base_indexer", id |-> id])

\* one entry of the call log: the function called and its arguments
CallEntry(f, params, x, z) == [fn |-> f.fn, params |-> params, x |-> x, z |-> z]
CallEntryWithState(f, params, state, x, z) ==
  [fn |-> f.fn, params |-> params, state |-> state, x |-> x, z |-> z]

\* Calling a function value.  Call and CallWithState return [out, calls]
\* and [out, state, calls]: calls logs the call and the calls it makes.
RECURSIVE Call(_, _, _, _)
RECURSIVE CallWithState(_, _, _, _, _)
RECURSIVE CallInit(_, _, _, _)
RECURSIVE CallInitWithState(_, _, _, _)

\* lambda params, x, z: transformed.apply(params, x)
lambda_apply_indexed(transformed, params, x, z) ==
  [out |-> TransformedApply(transformed, params, AddScalar(x, z)),
   calls |-> <<[fn |-> "transformed.apply", params |-> params, x |-> AddScalar(x, z)]>>,
   unused_state |-> None]

lambda_apply(transformed, params, x, z) ==
  [out |-> TransformedApply(transformed, params, x),
   calls |-> <<[fn |-> "transformed.apply", params |-> params, x |-> x]>>,
   unused_state |-> None]

\* lambda key, x, z: transformed.init(key, x)
lambda_init(transformed, key, x, z) == TransformedInit(transformed, key, x)

\* lambda key: key
lambda_indexer(key) == key

\* new_apply of wrap_apply_as_apply_with_state
new_apply(apply, params, state, inputs, index) ==
  LET r == Call(apply, params, inputs, index)
  IN  [out |-> r.out, state |-> EmptyState, calls |-> r.calls]

\* new_init of wrap_init_as_init_with_state
new_init_no_index(init, key, inputs, index) ==
  <<CallInit(init, key, inputs, 0), EmptyState>>

new_init(init, key, inputs, index) == <<CallInit(init, key, inputs, index), EmptyState>>

\* init of wrap_enn_with_state_as_enn
wrap_enn_with_state_as_enn_init(enn_, key, x, z) ==
  CallInitWithState(enn_.init, key, x, z)[1]

\* apply of wrap_enn_with_state_as_enn
wrap_enn_with_state_as_enn_apply_threaded(enn_, constant_state, params, x, z) ==
  LET r == CallWithState(enn_.apply, params, unused_state, x, z)
  IN  [out |-> r.out, calls |-> r.calls, unused_state |-> <<r.state>>]

wrap_enn_with_state_as_enn_apply(enn_, constant_state, params, x, z) ==
  LET r == CallWithState(enn_.apply, params, constant_state, x, z)
  IN  [out |-> r.out, calls |-> r.calls, unused_state |-> <<r.state>>]

\* scaled_apply of scale_enn_output: the scaling of the output
ScaleOutput_train_only(out, scale) ==
  IF IsOutputWithPrior(out)
  THEN OutputWithPrior(MulScalar(out.train, scale), out.prior, out.extra)
  ELSE Raw(MulScalar(out.value, scale))

ScaleOutput_drop_extra(out, scale) ==
  IF IsOutputWithPrior(out)
  THEN OutputWithPrior(MulScalar(out.train, scale), MulScalar(out.prior, scale), {})
  ELSE Raw(MulScalar(out.value, scale))

ScaleOutput_add(out, scale) ==
  IF IsOutputWithPrior(out)
  THEN OutputWithPrior(AddScalar(out.train, scale), AddScalar(out.prior, scale),
                       out.extra)
  ELSE Raw(AddScalar(out.value, scale))

ScaleOutput(out, scale) ==
  IF IsOutputWithPrior(out)
  THEN OutputWithPrior(MulScalar(out.train, scale), MulScalar(out.prior, scale),
                       out.extra)
  ELSE Raw(MulScalar(out.value, scale))

\* scaled_apply of scale_enn_output
scaled_apply(enn_, scale, params, state, inputs, index) ==
  LET r == CallWithState(enn_.apply, params, state, inputs, index)
  IN  [out |-> ScaleOutput(r.out, scale), state |-> r.state, calls |-> r.calls]

\* centered_apply of make_centered_enn
Normalize(x, x_mean, x_std) == Div(Sub(x, x_mean), AddScalar(x_std, Eps))

centered_apply_no_shift(enn_, x_mean, x_std, params, x, z) ==
  Call(enn_.apply, params, Div(x, AddScalar(x_std, Eps)), z)

centered_apply(enn_, x_mean, x_std, params, x, z) ==
  Call(enn_.apply, params, Normalize(x, x_mean, x_std), z)

\* centered_apply of make_centered_enn_with_state
centered_apply_with_state(enn_, x_mean, x_std, params, state, x, z) ==
  CallWithState(enn_.apply, params, state, Normalize(x, x_mean, x_std), z)

Call(f, params, x, z) ==
  LET r == CASE f.fn = "base_apply" ->
                  [out |-> BaseApply(f.id, params, x, z), calls |-> <<>>,
                   unused_state |-> None]
             [] f.fn = "lambda_apply" -> lambda_apply(f.transformed, params, x, z)
             [] f.fn = "apply" ->
                  wrap_enn_with_state_as_enn_apply(f.enn, f.constant_state, params, x, z)
             [] f.fn = "centered_apply" ->
                  centered_apply(f.enn, f.x_mean, f.x_std, params, x, z)
  IN  [r EXCEPT !.calls = <<CallEntry(f, params, x, z)>> \o r.calls]

CallWithState(f, params, state, x, z) ==
  LET r == CASE f.fn = "base_apply_with_state" ->
                  LET b == BaseApplyWithState(f.id, params, state, x, z)
                  IN  [out |-> b[1], state |-> b[2], calls |-> <<>>]
             [] f.fn = "new_apply" -> new_apply(f.apply, params, state, x, z)
             [] f.fn = "scaled_apply" ->
                  scaled_apply(f.enn, f.scale, params, state, x, z)
             [] f.fn = "centered_apply_with_state" ->
                  centered_apply_with_state(f.enn, f.x_mean, f.x_std, params, state,
                                            x, z)
  IN  [r EXCEPT !.calls = <<CallEntryWithState(f, params, state, x, z)>> \o r.calls]

CallInit(f, key, x, z) ==
  CASE f.fn = "base_init" -> BaseInit(f.id, key, x, z)
    [] f.fn = "lambda_init" -> lambda_init(f.transformed, key, x, z)
    [] f.fn = "init" -> wrap_enn_with_state_as_enn_init(f.enn, key, x, z)

CallInitWithState(f, key, x, z) ==
  CASE f.fn = "base_init_with_state" -> BaseInitWithState(f.id, key, x, z)
    [] f.fn = "new_init" -> new_init(f.init, key, x, z)

CallIndexer(f, key) ==
  CASE f.fn = "base_indexer" -> BaseIndexer(f.id, key)
    [] f.fn = "lambda_indexer" -> lambda_indexer(key)

(***************************************************************************)
(* The adapters.                                                           *)
(***************************************************************************)
wrap_transformed_as_enn(transformed) ==
  EpistemicNetwork([fn |-> "lambda_apply", transformed |-> transformed],
                   [fn |-> "lambda_init", transformed |-> transformed],
                   [fn |-> "lambda_indexer"])

wrap_apply_as_apply_with_state(apply) == [fn |-> "new_apply", apply |-> apply]

wrap_init_as_init_with_state(init) == [fn |-> "new_init", init |-> init]

wrap_transformed_as_enn_with_state(transformed) ==
  EpistemicNetworkWithState(
    wrap_apply_as_apply_with_state([fn |-> "lambda_apply", transformed |-> transformed]),
    wrap_init_as_init_with_state([fn |-> "lambda_init", transformed |-> transformed]),
    [fn |-> "lambda_indexer"])

wrap_enn_as_enn_with_state(enn_) ==
  EpistemicNetworkWithState(wrap_apply_as_apply_with_state(enn_.apply),
                            wrap_init_as_init_with_state(enn_.init),
                            enn_.indexer)

wrap_enn_with_state_as_enn(enn_, constant_state) ==
  LET cs == IF constant_state = None THEN EmptyState ELSE constant_state[1]
  IN  EpistemicNetwork([fn |-> "apply", enn |-> enn_, constant_state |-> cs],
                       [fn |-> "init", enn |-> enn_],
                       enn_.indexer)

scale_enn_output(enn_, scale) ==
  EpistemicNetworkWithState([fn |-> "scaled_apply", enn |-> enn_, scale |-> scale],
                            enn_.init, enn_.indexer)

\* a failed assert
Raised(e) == [type |-> "raised", exception |-> e]

make_centered_enn_rank1(enn_, x_train) ==
  IF ~(Ndim(x_train) > 0) THEN Raised("AssertionError")
  ELSE EpistemicNetwork([fn |-> "centered_apply", enn |-> enn_,
                         x_mean |-> Mean0(x_train), x_std |-> Std0(x_train)],
                        enn_.init, enn_.indexer)

make_centered_enn(enn_, x_train) ==
  IF ~(Ndim(x_train) > 1) THEN Raised("AssertionError")
  ELSE EpistemicNetwork([fn |-> "centered_apply", enn |-> enn_,
                         x_mean |-> Mean0(x_train), x_std |-> Std0(x_train)],
                        enn_.init, enn_.indexer)

make_centered_enn_with_state(enn_, x_train) ==
  IF ~(Ndim(x_train) > 1) THEN Raised("AssertionError")
  ELSE EpistemicNetworkWithState(
         [fn |-> "centered_apply_with_state", enn |-> enn_,
          x_mean |-> Mean0(x_train), x_std |-> Std0(x_train)],
         enn_.init, enn_.indexer)

(***************************************************************************)
(* The values the callers pass.                                            *)
(***************************************************************************)
Nums == {n \in 0..MaxNum : Representable(n)}
Scales == Nums \cup {One}
Indices == 0..MaxIndex
Keys == Indices
ParamSet == {[w |-> One], [w |-> One + 1]}
States == {EmptyState} \cup {StateOf(n) : n \in 1..MaxCount}
OptStates == {None} \cup {<<s>> : s \in States}

RECURSIVE Size(_)
Size(shape) == IF shape = <<>> THEN 1 ELSE Head(shape) * Size(Tail(shape))

ArraysOf(shape, vals) == {Array(shape, d) : d \in [1..Size(shape) -> vals]}

\* x_train: ranks 0 to 3, features constant or spread
TrainShapes == {<<>>, <<2>>, <<2, 2>>, <<2, 1, 2>>}
TrainSets == UNION {ArraysOf(sh, {0, MaxNum}) : sh \in TrainShapes}

\* inputs: the feature vectors that are the mean of some batch
Xs == {Mean0(d) : d \in ArraysOf(<<2, 2>>, {0, MaxNum})}

NoNet == [type |-> "none"]
BaseEnns == {BaseEnn(id) : id \in {"lin", "prior"}}
BaseEnnsWithState == {BaseEnnWithState(id) : id \in {"counter", "prior_ws"}}
Transformeds == {"f", "g"}

IsBase(net) == net.type # "none" /\ net.apply.fn \in {"base_apply", "base_apply_with_state"}
IsEnn(net) == net.type = "EpistemicNetwork"
IsEnnWithState(net) == net.type = "EpistemicNetworkWithState"
\* the adapters are chained at most two deep, and nothing wraps a centered
\* network
Wrappable(net) ==
  \/ IsBase(net)
  \/ net.apply.fn = "lambda_apply"
  \/ net.apply.fn = "new_apply" /\ net.apply.apply.fn \in {"base_apply", "lambda_apply"}
  \/ net.apply.fn \in {"apply", "scaled_apply"} /\ IsBase(net.apply.enn)

Outputs ==
  {Raw(a) : a \in ArraysOf(<<2>>, Nums)}
    \cup {OutputWithPrior(tp[1], tp[2], e) :
            tp \in ArraysOf(<<2>>, Nums) \X ArraysOf(<<2>>, Nums),
            e \in {{}, {<<"inputs", Array(<<2>>, <<0, MaxNum>>)>>}}}

(***************************************************************************)
(* Specification of the output conversions: one Output value, to which     *)
(* parse_net_output and parse_to_output_with_prior are applied, the latter *)
(* also to its own result.                                                 *)
(***************************************************************************)
InitOutput ==
  /\ enn = NoNet
  /\ unused_state = EmptyState
  /\ last \in {[op |-> "input", input |-> o, ret |-> o, n |-> 0] : o \in Outputs}

ParseNetOutput ==
  /\ last.op = "input"
  /\ last' = [op |-> "parse_net_output", input |-> last.input, arg |-> last.ret,
              ret |-> parse_net_output(last.ret), n |-> 1]
  /\ UNCHANGED <<enn, unused_state>>

ParseToOutputWithPrior ==
  /\ last.op \in {"input", "parse_to_output_with_prior"}
  /\ last.n < 2
  /\ last' = [op |-> "parse_to_output_with_prior", input |-> last.input,
              arg |-> last.ret, ret |-> parse_to_output_with_prior(last.ret),
              n |-> last.n + 1]
  /\ UNCHANGED <<enn, unused_state>>

NextOutput == ParseNetOutput \/ ParseToOutputWithPrior

SpecOutput == InitOutput /\ [][NextOutput]_vars

(***************************************************************************)
(* Specification of the network adapters: a network is built by the        *)
(* adapters and then called.  last records the most recent operation.      *)
(***************************************************************************)
Init ==
  /\ enn \in {NoNet} \cup BaseEnns \cup BaseEnnsWithState
  /\ last = [op |-> "none"]
  /\ unused_state = EmptyState

WrapTransformedAsEnn ==
  /\ enn = NoNet
  /\ \E t \in Transformeds :
       /\ enn' = wrap_transformed_as_enn(t)
       /\ last' = [op |-> "wrap_transformed_as_enn", transformed |-> t]
  /\ UNCHANGED unused_state

WrapTransformedAsEnnWithState ==
  /\ enn = NoNet
  /\ \E t \in Transformeds :
       /\ enn' = wrap_transformed_as_enn_with_state(t)
       /\ last' = [op |-> "wrap_transformed_as_enn_with_state", transformed |-> t]
  /\ UNCHANGED unused_state

WrapEnnAsEnnWithState ==
  /\ IsEnn(enn) /\ Wrappable(enn)
  /\ enn' = wrap_enn_as_enn_with_state(enn)
  /\ last' = [op |-> "wrap_enn_as_enn_with_state"]
  /\ UNCHANGED unused_state

WrapEnnWithStateAsEnn ==
  /\ IsEnnWithState(enn) /\ Wrappable(enn)
  /\ \E constant_state \in OptStates :
       /\ enn' = wrap_enn_with_state_as_enn(enn, constant_state)
       /\ last' = [op |-> "wrap_enn_with_state_as_enn",
                   constant_state |-> constant_state]
  /\ UNCHANGED unused_state

ScaleEnnOutput ==
  /\ IsEnnWithState(enn) /\ Wrappable(enn)
  /\ \E scale \in Scales :
       /\ enn' = scale_enn_output(enn, scale)
       /\ last' = [op |-> "scale_enn_output", scale |-> scale]
  /\ UNCHANGED unused_state

\* the adapter returns a network, or raises and leaves the caller with enn
Returned(r, enn_) == IF r.type = "raised" THEN enn_ ELSE r
RaisedBy(r) == IF r.type = "raised" THEN r.exception ELSE "none"

MakeCenteredEnn ==
  /\ IsEnn(enn) /\ IsBase(enn)
  /\ \E x_train \in TrainSets :
       /\ enn' = Returned(make_centered_enn(enn, x_train), enn)
       /\ last' = [op |-> "make_centered_enn", x_train |-> x_train,
                   raised |-> RaisedBy(make_centered_enn(enn, x_train))]
  /\ UNCHANGED unused_state

MakeCenteredEnnWithState ==
  /\ IsEnnWithState(enn) /\ IsBase(enn)
  /\ \E x_train \in TrainSets :
       /\ enn' = Returned(make_centered_enn_with_state(enn, x_train), enn)
       /\ last' = [op |-> "make_centered_enn_with_state", x_train |-> x_train,
                   raised |-> RaisedBy(make_centered_enn_with_state(enn, x_train))]
  /\ UNCHANGED unused_state

\* A call's result depends on earlier calls only through unused_state, which
\* only the apply of wrap_enn_with_state_as_enn writes: the model lets a call
\* follow a call on those networks, and elsewhere calls a network as built.
CallOps == {"apply", "apply_with_state", "init", "init_with_state", "indexer"}
Fresh == last.op \notin CallOps

\* before: unused_state as the call found it
ApplyRecord(r, params, x, z) ==
  [op |-> "apply", params |-> params, x |-> x, z |-> z, out |-> r.out,
   calls |-> r.calls, unused_state |-> r.unused_state, before |-> unused_state]

ApplyWithStateRecord(r, params, state, x, z) ==
  [op |-> "apply_with_state", params |-> params, state |-> state, x |-> x, z |-> z,
   out |-> r.out, ret_state |-> r.state, calls |-> r.calls]

\* enn.apply(params, x, z)
ApplyCall ==
  /\ IsEnn(enn)
  /\ Fresh \/ (last.op = "apply" /\ enn.apply.fn = "apply")
  /\ \E params \in ParamSet, x \in Xs, z \in Indices :
       last' = ApplyRecord(Call(enn.apply, params, x, z), params, x, z)
  /\ unused_state' = IF last'.unused_state = None THEN unused_state
                     ELSE last'.unused_state[1]
  /\ UNCHANGED enn

\* enn.apply(params, state, x, z)
ApplyWithStateCall ==
  /\ IsEnnWithState(enn)
  /\ Fresh
  /\ \E params \in ParamSet, state \in States, x \in Xs, z \in Indices :
       last' = ApplyWithStateRecord(CallWithState(enn.apply, params, state, x, z),
                                    params, state, x, z)
  /\ UNCHANGED <<enn, unused_state>>

\* enn.init(key, x, z)
InitCall ==
  /\ IsEnn(enn)
  /\ Fresh
  /\ \E key \in Keys, x \in Xs, z \in Indices :
       last' = [op |-> "init", key |-> key, x |-> x, z |-> z,
                ret |-> CallInit(enn.init, key, x, z)]
  /\ UNCHANGED <<enn, unused_state>>

InitWithStateCall ==
  /\ IsEnnWithState(enn)
  /\ Fresh
  /\ \E key \in Keys, x \in Xs, z \in Indices :
       last' = [op |-> "init_with_state", key |-> key, x |-> x, z |-> z,
                ret |-> CallInitWithState(enn.init, key, x, z)]
  /\ UNCHANGED <<enn, unused_state>>

\* enn.indexer(key)
IndexerCall ==
  /\ enn # NoNet
  /\ Fresh
  /\ \E key \in Keys :
       last' = [op |-> "indexer", key |-> key, ret |-> CallIndexer(enn.indexer, key)]
  /\ UNCHANGED <<enn, unused_state>>

Next ==
  \/ WrapTransformedAsEnn
  \/ WrapTransformedAsEnnWithState
  \/ WrapEnnAsEnnWithState
  \/ WrapEnnWithStateAsEnn
  \/ ScaleEnnOutput
  \/ MakeCenteredEnn
  \/ MakeCenteredEnnWithState
  \/ ApplyCall
  \/ ApplyWithStateCall
  \/ InitCall
  \/ InitWithStateCall
  \/ IndexerCall

Spec == Init /\ [][Next]_vars

(***************************************************************************)
(* Properties.                                                             *)
(***************************************************************************)
AllZero(a) == \A i \in 1..Len(a.data) : a.data[i] = 0

C2_ParseToOutputWithPrior ==
  last.op = "parse_to_output_with_prior" =>
    /\ last.ret.type = "OutputWithPrior"
    /\ last.arg.type = "Array" =>
         /\ last.ret.train = last.arg.value
         /\ last.ret.prior.shape = last.arg.value.shape
         /\ Len(last.ret.prior.data) = Len(last.arg.value.data)
         /\ AllZero(last.ret.prior)
    /\ last.arg.type = "OutputWithPrior" => last.ret = last.arg

C2_Witness ==
  /\ last.op = "parse_to_output_with_prior"
  /\ last.n = 2
  /\ last.input.type = "Array"
  /\ ~AllZero(last.input.value)
  /\ last.ret = last.arg
  /\ last.ret.train = last.input.value

\* wrap_enn_with_state_as_enn(wrap_enn_as_enn_with_state(e)) with the empty
\* constant state, and the network e it was built from
IsRoundTrip(net) ==
  /\ net.type = "EpistemicNetwork"
  /\ net.apply.fn = "apply"
  /\ net.apply.constant_state = EmptyState
  /\ net.apply.enn.apply.fn = "new_apply"
  /\ net.apply.enn.init.fn = "new_init"

Wrapped(net) ==
  EpistemicNetwork(net.apply.enn.apply.apply, net.apply.enn.init.init,
                   net.apply.enn.indexer)

\* C3: wrapping a stateless network as one with state and back (default
\* constant state) gives a network whose apply and init return what the
\* original's return, for all arguments, and whose indexer is the original's.
C3_RoundTrip ==
  (enn.type = "EpistemicNetwork" /\ IsRoundTrip(enn)) =>
    /\ last.op = "apply" =>
         last.out = Call(Wrapped(enn).apply, last.params, last.x, last.z).out
    /\ last.op = "init" =>
         last.ret = CallInit(Wrapped(enn).init, last.key, last.x, last.z)
    /\ last.op = "indexer" => last.ret = CallIndexer(Wrapped(enn).indexer, last.key)
    /\ enn.indexer = Wrapped(enn).indexer

C3_Witness ==
  /\ enn.type = "EpistemicNetwork" /\ IsRoundTrip(enn)
  /\ Wrapped(enn).apply.fn = "base_apply"
  /\ last.op = "init"
  /\ last.z # 0
  /\ last.ret = BaseInit(Wrapped(enn).apply.id, last.key, last.x, last.z)

\* C4: the apply of wrap_enn_with_state_as_enn(enn, constant_state) calls
\* enn.apply with constant_state (the empty mapping when None is given) on
\* every call, whatever state an earlier call returned, and its output is
\* the output of enn.apply at constant_state.
C4_ConstantState ==
  /\ last.op = "wrap_enn_with_state_as_enn" =>
       enn.apply.constant_state =
         (IF last.constant_state = None THEN EmptyState ELSE last.constant_state[1])
  /\ (last.op = "apply" /\ enn.apply.fn = "apply") =>
       /\ last.calls[2].state = enn.apply.constant_state
       /\ \A i \in 2..Len(last.calls) :
            last.calls[i].fn = "base_apply_with_state" =>
              last.calls[i].state = enn.apply.constant_state
       /\ last.out = CallWithState(enn.apply.enn.apply, last.params,
                                   enn.apply.constant_state, last.x, last.z).out

C4_Witness ==
  /\ last.op = "apply" /\ enn.apply.fn = "apply"
  /\ enn.apply.enn.apply.fn = "base_apply_with_state"
  /\ last.before # EmptyState
  /\ last.before # enn.apply.constant_state
  /\ last.calls[2].state = enn.apply.constant_state

IsScaled(net) == net.type = "EpistemicNetworkWithState" /\ net.apply.fn = "scaled_apply"
IsScaledTwice(net) == IsScaled(net) /\ IsScaled(net.apply.enn)

\* the call that last records, made on the network net instead
SameCall(net) == CallWithState(net.apply, last.params, last.state, last.x, last.z)

\* x * y is computed without rounding
ExactMul(x, y) == FMul(x, y) * One = x * y

\* every element of the output times s is computed without rounding
ExactScale(out, s) ==
  IF IsOutputWithPrior(out)
  THEN /\ \A i \in 1..Len(out.train.data) : ExactMul(out.train.data[i], s)
       /\ \A i \in 1..Len(out.prior.data) : ExactMul(out.prior.data[i], s)
  ELSE \A i \in 1..Len(out.value.data) : ExactMul(out.value.data[i], s)

\* C5 as stated: scaling by s1 and then by s2 gives the output of scaling
\* once by s1 * s2, for every params, state, input and index.
C5_Original ==
  (last.op = "apply_with_state" /\ IsScaledTwice(enn)) =>
    last.out =
      SameCall(scale_enn_output(enn.apply.enn.apply.enn,
                                FMul(enn.apply.enn.apply.scale, enn.apply.scale))).out

\* C5 amended: scaling by s1 and then by s2 returns the state of scaling
\* once by s1 * s2, and the same output whenever the products s1 * s2,
\* out * s1 and (out * s1) * s2 are computed without rounding.
C5_ScaleTwice ==
  (last.op = "apply_with_state" /\ IsScaledTwice(enn)) =>
    LET s1   == enn.apply.enn.apply.scale
        s2   == enn.apply.scale
        base == enn.apply.enn.apply.enn
        once == SameCall(scale_enn_output(base, FMul(s1, s2)))
    IN  /\ last.ret_state = once.state
        /\ (/\ ExactMul(s1, s2)
            /\ ExactScale(SameCall(base).out, s1)
            /\ ExactScale(SameCall(enn.apply.enn).out, s2)) => last.out = once.out

C5_Witness ==
  /\ last.op = "apply_with_state" /\ IsScaledTwice(enn)
  /\ enn.apply.scale \notin {0, One}
  /\ enn.apply.enn.apply.scale \notin {0, One}
  /\ ExactMul(enn.apply.enn.apply.scale, enn.apply.scale)
  /\ ExactScale(SameCall(enn.apply.enn.apply.enn).out, enn.apply.enn.apply.scale)
  /\ ExactScale(SameCall(enn.apply.enn).out, enn.apply.scale)
  /\ last.out.type = "OutputWithPrior"
  /\ ~AllZero(last.out.train) /\ ~AllZero(last.out.prior)

\* C6: scale_enn_output(enn, 1.0) returns what enn.apply returns, for every
\* input, index, params and state.
C6_ScaleByOne ==
  (last.op = "apply_with_state" /\ IsScaled(enn) /\ enn.apply.scale = One) =>
    /\ last.out = SameCall(enn.apply.enn).out
    /\ last.ret_state = SameCall(enn.apply.enn).state

C6_Witness ==
  /\ last.op = "apply_with_state" /\ IsScaled(enn) /\ enn.apply.scale = One
  /\ last.out.type = "OutputWithPrior"
  /\ ~AllZero(last.out.train) /\ ~AllZero(last.out.prior)
  /\ last.out.extra # {}

\* C7: for an OutputWithPrior the scaled apply multiplies train by scale and
\* prior by scale and leaves extra as enn.apply returned it; init and indexer
\* of the scaled network are those of enn.
C7_ScalePrior ==
  IsScaled(enn) =>
    /\ enn.init = enn.apply.enn.init
    /\ enn.indexer = enn.apply.enn.indexer
    /\ last.op = "init_with_state" =>
         last.ret = CallInitWithState(enn.apply.enn.init, last.key, last.x, last.z)
    /\ last.op = "indexer" => last.ret = CallIndexer(enn.apply.enn.indexer, last.key)
    /\ (last.op = "apply_with_state" /\ IsOutputWithPrior(SameCall(enn.apply.enn).out)) =>
         LET out == SameCall(enn.apply.enn).out
         IN  /\ last.out.type = "OutputWithPrior"
             /\ last.out.train.shape = out.train.shape
             /\ last.out.prior.shape = out.prior.shape
             /\ \A i \in 1..Len(out.train.data) :
                  last.out.train.data[i] = FMul(out.train.data[i], enn.apply.scale)
             /\ \A i \in 1..Len(out.prior.data) :
                  last.out.prior.data[i] = FMul(out.prior.data[i], enn.apply.scale)
             /\ last.out.extra = out.extra

C7_Witness ==
  /\ IsScaled(enn) /\ last.op = "apply_with_state"
  /\ enn.apply.scale \notin {0, One}
  /\ last.out.type = "OutputWithPrior"
  /\ last.out.extra # {}
  /\ ~AllZero(last.out.prior)
  /\ last.out.prior # SameCall(enn.apply.enn).out.prior

IsCentered(net) == net.type = "EpistemicNetwork" /\ net.apply.fn = "centered_apply"
IsCenteredWithState(net) ==
  net.type = "EpistemicNetworkWithState" /\ net.apply.fn = "centered_apply_with_state"

\* C8: make_centered_enn and make_centered_enn_with_state raise an assertion
\* error when reference_inputs has rank below 2, returning no network, and
\* return a network without error when the rank is 2 or more.
C8_RankPrecondition ==
  /\ last.op = "make_centered_enn" =>
       IF Ndim(last.x_train) < 2
       THEN last.raised = "AssertionError" /\ ~IsCentered(enn)
       ELSE last.raised = "none" /\ IsCentered(enn)
  /\ last.op = "make_centered_enn_with_state" =>
       IF Ndim(last.x_train) < 2
       THEN last.raised = "AssertionError" /\ ~IsCenteredWithState(enn)
       ELSE last.raised = "none" /\ IsCenteredWithState(enn)

C8_Witness ==
  /\ last.op = "make_centered_enn"
  /\ Ndim(last.x_train) = 1
  /\ last.raised = "AssertionError"
  /\ IsBase(enn)

\* feature j of row i of a batch of rank 2
Feature(x_train, i, j) == x_train.data[(i - 1) * x_train.shape[2] + j]

\* C9: the apply and init of wrap_transformed_as_enn and of
\* wrap_transformed_as_enn_with_state do not depend on the index: any two
\* index values give the same result; and indexer returns its seed.
C9_IndexIgnored ==
  (enn.type # "none" /\ enn.indexer.fn = "lambda_indexer") =>
    /\ last.op = "apply" =>
         \A z \in Indices : Call(enn.apply, last.params, last.x, z).out = last.out
    /\ last.op = "apply_with_state" =>
         \A z \in Indices :
           /\ CallWithState(enn.apply, last.params, last.state, last.x, z).out = last.out
           /\ CallWithState(enn.apply, last.params, last.state, last.x, z).state
                = last.ret_state
    /\ last.op = "init" =>
         \A z \in Indices : CallInit(enn.init, last.key, last.x, z) = last.ret
    /\ last.op = "init_with_state" =>
         \A z \in Indices : CallInitWithState(enn.init, last.key, last.x, z) = last.ret
    /\ last.op = "indexer" => last.ret = last.key

C9_Witness ==
  /\ enn.type = "EpistemicNetworkWithState"
  /\ enn.indexer.fn = "lambda_indexer"
  /\ enn.apply.fn = "new_apply"
  /\ last.op = "apply_with_state"
  /\ last.z # 0
  /\ ~AllZero(last.x)
  /\ last.out = TransformedApply(enn.apply.apply.transformed, last.params, last.x)

\* C10: the apply of make_centered_enn(enn, data) calls enn.apply with
\* (x - mean) / (std + 1e-9), mean and std the per-feature statistics of data
\* over axis 0 taken when the network is built; called with x = mean it gives
\* what enn.apply gives on the all-zero input; init and indexer are enn's.
C10_Centered ==
  IsCentered(enn) =>
    /\ enn.init = enn.apply.enn.init
    /\ enn.indexer = enn.apply.enn.indexer
    /\ last.op = "init" =>
         last.ret = CallInit(enn.apply.enn.init, last.key, last.x, last.z)
    /\ (last.op = "make_centered_enn" /\ Ndim(last.x_train) = 2) =>
         /\ enn.apply.x_mean.shape = <<last.x_train.shape[2]>>
         /\ enn.apply.x_std.shape = <<last.x_train.shape[2]>>
         /\ \A j \in 1..last.x_train.shape[2] :
              \* a feature constant over the batch: that constant, spread 0
              /\ (\A i \in 1..last.x_train.shape[1] :
                    Feature(last.x_train, i, j) = Feature(last.x_train, 1, j))
                 => /\ enn.apply.x_mean.data[j] = Feature(last.x_train, 1, j)
                    /\ enn.apply.x_std.data[j] = 0
              \* otherwise a mean within the feature's range, a spread >= 0
              /\ \E i \in 1..last.x_train.shape[1] :
                   Feature(last.x_train, i, j) <= enn.apply.x_mean.data[j]
              /\ \E i \in 1..last.x_train.shape[1] :
                   Feature(last.x_train, i, j) >= enn.apply.x_mean.data[j]
              /\ enn.apply.x_std.data[j] >= 0
    /\ last.op = "apply" =>
         LET passed == last.calls[2].x
         IN  /\ last.calls[2].params = last.params /\ last.calls[2].z = last.z
             /\ \A i \in 1..Len(passed.data) :
                  passed.data[i] =
                    FDiv(FSub(Bcast(last.x, i), Bcast(enn.apply.x_mean, i)),
                         FAdd(Bcast(enn.apply.x_std, i), Eps))
             /\ last.out = Call(enn.apply.enn.apply, last.params, passed, last.z).out
             /\ last.x = enn.apply.x_mean =>
                  /\ AllZero(passed)
                  /\ last.out = Call(enn.apply.enn.apply, last.params,
                                     zeros_like(passed), last.z).out

C10_Witness ==
  /\ IsCentered(enn)
  /\ last.op = "apply"
  /\ last.x = enn.apply.x_mean
  /\ ~AllZero(last.x)
  /\ ~AllZero(enn.apply.x_std)
  /\ last.out = Call(enn.apply.enn.apply, last.params, zeros_like(last.x), last.z).out

====
